---- MODULE Spec2Model ----
(***************************************************************************)
(* Model of the rover's ESP32 master node (esp32_master.ino): setup(), the *)
(* ESP-NOW receive callback receiveCommand, and the two FreeRTOS tasks     *)
(* decisionTask and sensorTask, sharing remoteCommand and                  *)
(* measuredDistanceCm under commandMutex and distanceMutex.                *)
(*                                                                         *)
(* Every xSemaphoreTake(m, pdMS_TO_TICKS(10)) is two actions: the take     *)
(* that succeeds (the mutex is free) and the take that times out (another  *)
(* context holds the mutex for the whole wait).  A step of a context runs  *)
(* from one operation on a mutex or on a shared variable up to the next    *)
(* one, or up to the vTaskDelay the context blocks in; the code between    *)
(* two such operations touches only locals and the context's own outputs.  *)
(***************************************************************************)
EXTENDS Integers, Sequences, FiniteSets

\* ---------------------------------------------------------------- constants
CRITICAL_THRESHOLD == 8
OBSTACLE_THRESHOLD == 20
MAX_DISTANCE == 100
InitialDistanceCm == 50

CMD_STOP == 0
CMD_FORWARD == 1
CMD_BACKWARD == 2
CMD_LEFT == 3
CMD_RIGHT == 4

\* sizeof(ControlPacket): one packed uint8_t
PacketSize == 1

\* ------------------------------------------------------------------- bounds
\* Largest command byte a received packet carries (5 is outside CarCommand).
MaxCmdByte == 5
\* Largest packet length delivered to the callback.
MaxLen == 2

CmdBytes == 0..MaxCmdByte
Lens == 0..MaxLen

\* What sonar.ping_cm() returns: 0 for no echo, else centimetres up to
\* MAX_DISTANCE; the values on both sides of each comparison of the code.
RawPings ==
  {0, CRITICAL_THRESHOLD - 1, CRITICAL_THRESHOLD, OBSTACLE_THRESHOLD,
   OBSTACLE_THRESHOLD + 1}

VARIABLES
  remoteCommand,        \* CarCommand remoteCommand
  measuredDistanceCm,   \* int measuredDistanceCm
  distanceMutex,        \* "NULL", "free", or the context that holds it
  commandMutex,
  setupPc,              \* position of setup()
  recvRegistered,       \* esp_now_register_recv_cb(receiveCommand) was called
  dpc,                  \* position of decisionTask ("off": not created)
  currentDist,          \* decisionTask's local currentDist (0: out of scope)
  cmd,                  \* decisionTask's local cmd
  emitted,              \* tokens this decisionTask cycle wrote to SerialMega
  dlog,                 \* alert this decisionTask cycle printed to Serial
  spc,                  \* position of sensorTask ("off": not created)
  d,                    \* sensorTask's local d (0: out of scope)
  alarm,                \* level of ALARM_PIN
  rpc,                  \* position of receiveCommand ("idle": not running)
  rlen,                 \* len of the running/last receiveCommand call
  rcmd,                 \* receiveCommand's local cmd
  rlog,                 \* what the running/last receiveCommand call printed
  lastTakenCmd,         \* history: cmd of the last call that took commandMutex
  lastTakenDist,        \* history: d of the last cycle that took distanceMutex
  startCritical,        \* history: measuredDistanceCm <= CRITICAL at cycle start
  distTook,             \* history: this cycle's take of distanceMutex succeeded
  cmdTook,              \* history: this cycle's take of commandMutex succeeded
  pubAtRead,            \* history: the command published when the cycle read
                        \* the command (lastTakenCmd) or failed to (the
                        \* stored remoteCommand)
  unread,               \* history: remoteCommand was stored and not yet read
  lost,                 \* history: commands overwritten before being read
  stored,               \* history: some receiveCommand call has stored
  \* Arduino Mega motor driver (mega_motor_driver.ino)
  mpc,                  \* "setup", "loop", or "halted" in setup's while (true)
  serial1,              \* lines waiting in Serial1's receive buffer
  mcmd,                 \* String cmd of the last line loop() read, trimmed
  leftRun,              \* last run() of leftMotor
  rightRun,             \* last run() of rightMotor
  leftSpeed,            \* last setSpeed() of leftMotor
  rightSpeed,           \* last setSpeed() of rightMotor
  megaLog,              \* what the last loop() pass printed after "Received: "
  \* remote controller (Remote_Control.ino)
  pinLeft,              \* level of BTN_LEFT_PIN
  pinRight,             \* level of BTN_RIGHT_PIN
  pinBack,              \* level of BTN_BACK_PIN
  leftPressed,          \* computeCommandFromButtons' locals at its last call
  rightPressed,
  backPressed,
  currentCmd,           \* CarCommand currentCmd
  sentPkt               \* bytes of the last packet given to esp_now_send

shared == <<remoteCommand, measuredDistanceCm, distanceMutex, commandMutex>>
setupVars == <<setupPc, recvRegistered>>
decisionVars ==
  <<dpc, currentDist, cmd, emitted, dlog, startCritical, distTook, cmdTook,
    pubAtRead>>
sensorVars == <<spc, d, alarm>>
recvVars == <<rpc, rlen, rcmd, rlog>>
histVars == <<lastTakenCmd, lastTakenDist>>
overwriteVars == <<unread, lost, stored>>
megaVars ==
  <<mpc, serial1, mcmd, leftRun, rightRun, leftSpeed, rightSpeed, megaLog>>
remoteVars ==
  <<pinLeft, pinRight, pinBack, leftPressed, rightPressed, backPressed,
    currentCmd, sentPkt>>
\* What no step of the ESP32 master touches: the other two boards.
otherBoards == <<megaVars, remoteVars>>
vars == <<remoteCommand, measuredDistanceCm, distanceMutex, commandMutex,
          setupPc, recvRegistered, dpc, currentDist, cmd, emitted, dlog, spc,
          d, alarm, rpc, rlen, rcmd, rlog, lastTakenCmd, lastTakenDist,
          startCritical, distTook, cmdTook, pubAtRead, overwriteVars,
          megaVars, remoteVars>>

\* ------------------------------------------------------------ pure functions
\* Variant: the raw ping is returned as it is, 0 included.
ReadUltrasonicCMRaw(raw) == raw

\* readUltrasonicCM: a raw ping of 0 (no echo) becomes MAX_DISTANCE.
ReadUltrasonicCM(raw) == IF raw = 0 THEN MAX_DISTANCE ELSE raw

\* Variant: only packets that are too short are rejected.
ValidLenAtLeast(len) == len >= PacketSize

\* receiveCommand's length check: len != sizeof(ControlPacket) is rejected.
ValidLen(len) == len = PacketSize

\* receiveCommand's debug switch.
RecvLogLine(c) ==
  CASE c = CMD_STOP -> "Command: STOP"
    [] c = CMD_FORWARD -> "Command: FORWARD"
    [] c = CMD_BACKWARD -> "Command: BACKWARD"
    [] c = CMD_LEFT -> "Command: LEFT"
    [] c = CMD_RIGHT -> "Command: RIGHT"
    [] OTHER -> "Command: UNKNOWN"

\* The names of the CarCommand enumerators, by value.
CommandNames == <<"STOP", "FORWARD", "BACKWARD", "LEFT", "RIGHT">>
IsCarCommand(c) == c \in CMD_STOP..CMD_RIGHT
NameOf(c) == CommandNames[c + 1]

\* Variant: the LEFT and RIGHT cases print each other's token.
SwitchTokensTurnsSwapped(c) ==
  CASE c = CMD_STOP -> <<"STOP">>
    [] c = CMD_FORWARD -> <<"FORWARD">>
    [] c = CMD_BACKWARD -> <<"BACKWARD">>
    [] c = CMD_LEFT -> <<"RIGHT">>
    [] c = CMD_RIGHT -> <<"LEFT">>
    [] OTHER -> <<>>

\* decisionTask's switch (cmd): one println per case, no default case.
SwitchTokens(c) ==
  CASE c = CMD_STOP -> <<"STOP">>
    [] c = CMD_FORWARD -> <<"FORWARD">>
    [] c = CMD_BACKWARD -> <<"BACKWARD">>
    [] c = CMD_LEFT -> <<"LEFT">>
    [] c = CMD_RIGHT -> <<"RIGHT">>
    [] OTHER -> <<>>

\* Variant: the critical branch stops instead of backing up.
DecideTokensCriticalStop(dist, c) ==
  IF dist <= CRITICAL_THRESHOLD THEN <<"STOP">>
  ELSE IF dist <= OBSTACLE_THRESHOLD THEN <<"BACKWARD">>
  ELSE SwitchTokens(c)

\* Variant: no critical branch, and the obstacle branch tests its zone only.
DecideTokensNoCritical(dist, c) ==
  IF dist > CRITICAL_THRESHOLD /\ dist <= OBSTACLE_THRESHOLD THEN <<"BACKWARD">>
  ELSE SwitchTokens(c)

\* Variant: the obstacle branch tests the critical threshold a second time.
DecideTokensObstacleSlip(dist, c) ==
  IF dist <= CRITICAL_THRESHOLD THEN <<"BACKWARD">>
  ELSE IF dist <= CRITICAL_THRESHOLD THEN <<"BACKWARD">>
  ELSE SwitchTokens(c)

\* decisionTask's decision: the tokens one cycle writes to SerialMega.
DecideTokens(dist, c) ==
  IF dist <= CRITICAL_THRESHOLD THEN <<"BACKWARD">>
  ELSE IF dist <= OBSTACLE_THRESHOLD THEN <<"BACKWARD">>
  ELSE SwitchTokens(c)

\* sensorTask's alarm condition.
AlarmCondition(dist) == dist < CRITICAL_THRESHOLD

\* Variant: the first comparison of the decision is strict.
DecideBranchStrict(dist) ==
  IF dist < CRITICAL_THRESHOLD THEN "Critical"
  ELSE IF dist <= OBSTACLE_THRESHOLD THEN "Obstacle"
  ELSE "Clear"

\* Which arm of decisionTask's if / else if / else a distance selects.
DecideBranch(dist) ==
  IF dist <= CRITICAL_THRESHOLD THEN "Critical"
  ELSE IF dist <= OBSTACLE_THRESHOLD THEN "Obstacle"
  ELSE "Clear"

\* The Serial.println of the arm taken; the else arm prints no alert.
DecideLog(dist) ==
  CASE DecideBranch(dist) = "Critical" -> "Proximity Alert! Backtracking..."
    [] DecideBranch(dist) = "Obstacle" -> "Obstacle Alert! Backtracking..."
    [] OTHER -> "none"

\* ---------------------------------------------------------------------- Init
Init ==
  /\ remoteCommand = CMD_STOP
  /\ measuredDistanceCm = InitialDistanceCm
  /\ distanceMutex = "NULL"
  /\ commandMutex = "NULL"
  /\ setupPc = "createMutexes"
  /\ recvRegistered = FALSE
  /\ dpc = "off"
  /\ currentDist = 0
  /\ cmd = CMD_STOP
  /\ emitted = <<>>
  /\ dlog = "none"
  /\ spc = "off"
  /\ d = 0
  /\ alarm = "LOW"
  /\ rpc = "idle"
  /\ rlen = 0
  /\ rcmd = CMD_STOP
  /\ rlog = "none"
  /\ lastTakenCmd = CMD_STOP
  /\ lastTakenDist = InitialDistanceCm
  /\ startCritical = FALSE
  /\ distTook = FALSE
  /\ cmdTook = FALSE
  /\ pubAtRead = CMD_STOP
  /\ unread = FALSE
  /\ lost = {}
  /\ stored = FALSE
  /\ mpc = "setup"
  /\ serial1 = <<>>
  /\ mcmd = <<>>
  /\ leftRun = "RELEASE"
  /\ rightRun = "RELEASE"
  /\ leftSpeed = 0
  /\ rightSpeed = 0
  /\ megaLog = "none"
  /\ pinLeft = "HIGH"
  /\ pinRight = "HIGH"
  /\ pinBack = "HIGH"
  /\ leftPressed = FALSE
  /\ rightPressed = FALSE
  /\ backPressed = FALSE
  /\ currentCmd = CMD_STOP
  /\ sentPkt = <<>>

\* --------------------------------------------------------------------- setup
\* Variant: only commandMutex is created before the tasks.
SetupCreateCommandMutexOnly ==
  /\ setupPc = "createMutexes"
  /\ commandMutex' = "free"
  /\ setupPc' = "espNowInit"
  /\ UNCHANGED <<remoteCommand, measuredDistanceCm, distanceMutex,
                 recvRegistered>>
  /\ UNCHANGED <<decisionVars, sensorVars, recvVars, histVars>>
  /\ UNCHANGED <<overwriteVars, otherBoards>>

SetupCreateMutexes ==
  /\ setupPc = "createMutexes"
  /\ distanceMutex' = "free"
  /\ commandMutex' = "free"
  /\ setupPc' = "espNowInit"
  /\ UNCHANGED <<remoteCommand, measuredDistanceCm, recvRegistered>>
  /\ UNCHANGED <<decisionVars, sensorVars, recvVars, histVars>>
  /\ UNCHANGED <<overwriteVars, otherBoards>>

\* Variant: setup returns when esp_now_init() fails.
SetupEspNowHalts ==
  /\ setupPc = "espNowInit"
  /\ \E ok \in BOOLEAN :
       /\ recvRegistered' = ok
       /\ setupPc' = IF ok THEN "createDecision" ELSE "done"
  /\ UNCHANGED <<shared, decisionVars, sensorVars, recvVars, histVars>>
  /\ UNCHANGED <<overwriteVars, otherBoards>>

\* esp_now_init() returns ESP_OK or an error; the callback is registered
\* only on ESP_OK.
SetupEspNow ==
  /\ setupPc = "espNowInit"
  /\ \E ok \in BOOLEAN : recvRegistered' = ok
  /\ setupPc' = "createDecision"
  /\ UNCHANGED <<shared, decisionVars, sensorVars, recvVars, histVars>>
  /\ UNCHANGED <<overwriteVars, otherBoards>>

SetupCreateDecision ==
  /\ setupPc = "createDecision"
  /\ dpc' = "takeDist"
  /\ startCritical' = (measuredDistanceCm <= CRITICAL_THRESHOLD)
  /\ setupPc' = "createSensor"
  /\ UNCHANGED <<shared, recvRegistered, currentDist, cmd, emitted, dlog, distTook,
                 cmdTook, pubAtRead, sensorVars, recvVars, histVars>>
  /\ UNCHANGED <<overwriteVars, otherBoards>>

SetupCreateSensor ==
  /\ setupPc = "createSensor"
  /\ spc' = "ping"
  /\ setupPc' = "done"
  /\ UNCHANGED <<shared, recvRegistered, decisionVars, d, alarm, recvVars, histVars>>
  /\ UNCHANGED <<overwriteVars, otherBoards>>

Setup ==
  \/ SetupCreateMutexes
  \/ SetupEspNow
  \/ SetupCreateDecision
  \/ SetupCreateSensor

\* A mutex some context holds (created and not free).
Held(m) == m \notin {"NULL", "free"}

\* ------------------------------------------------------------ receiveCommand
\* The transport calls receiveCommand with a packet of len bytes whose first
\* byte is byte.  A wrong length prints the error and returns; otherwise the
\* byte is cast to CarCommand and the call goes on to take commandMutex.
RecvCallFrom(lens, bytes) ==
  /\ recvRegistered
  /\ rpc = "idle"
  /\ \E len \in lens :
       /\ rlen' = len
       /\ IF ValidLen(len)
            THEN /\ \E byte \in bytes : rcmd' = byte
                 /\ rlog' = "none"
                 /\ rpc' = "take"
            ELSE /\ rcmd' = CMD_STOP
                 /\ rlog' = "Error: Invalid packet size"
                 /\ rpc' = "idle"
  /\ UNCHANGED <<shared, setupVars, decisionVars, sensorVars, histVars>>
  /\ UNCHANGED <<overwriteVars, otherBoards>>

RecvCall == RecvCallFrom(Lens, CmdBytes)

RecvTake ==
  /\ rpc = "take"
  /\ commandMutex = "free"
  /\ commandMutex' = "recv"
  /\ lastTakenCmd' = rcmd
  /\ rpc' = "write"
  /\ UNCHANGED <<remoteCommand, measuredDistanceCm, distanceMutex, setupVars,
                 decisionVars, sensorVars, rlen, rcmd, rlog, lastTakenDist>>
  /\ UNCHANGED <<overwriteVars, otherBoards>>

\* Variant: the store is not inside the if of the take.
RecvTakeTimeoutStores ==
  /\ rpc = "take"
  /\ Held(commandMutex)
  /\ remoteCommand' = rcmd
  /\ rlog' = RecvLogLine(rcmd)
  /\ rcmd' = CMD_STOP
  /\ rpc' = "idle"
  /\ UNCHANGED <<measuredDistanceCm, distanceMutex, commandMutex, setupVars,
                 decisionVars, sensorVars, rlen, histVars>>
  /\ UNCHANGED <<overwriteVars, otherBoards>>

\* The take returns pdFALSE after 10 ms: the store is skipped; the debug
\* switch prints and the callback returns.
RecvTakeTimeout ==
  /\ rpc = "take"
  /\ Held(commandMutex)
  /\ rlog' = RecvLogLine(rcmd)
  /\ rcmd' = CMD_STOP
  /\ rpc' = "idle"
  /\ UNCHANGED <<shared, setupVars, decisionVars, sensorVars, rlen, histVars>>
  /\ UNCHANGED <<overwriteVars, otherBoards>>

\* Variant: a stored command other than STOP is kept until it is replaced by
\* STOP (the newer command is dropped).
RecvStoreLatch ==
  /\ rpc = "write"
  /\ remoteCommand' = IF remoteCommand = CMD_STOP \/ rcmd = CMD_STOP
                         THEN rcmd
                         ELSE remoteCommand
  /\ rpc' = "give"
  /\ UNCHANGED <<measuredDistanceCm, distanceMutex, commandMutex, setupVars,
                 decisionVars, sensorVars, rlen, rcmd, rlog, histVars>>
  /\ UNCHANGED otherBoards

\* remoteCommand = cmd, under commandMutex.
RecvStore ==
  /\ rpc = "write"
  /\ remoteCommand' = rcmd
  /\ rpc' = "give"
  /\ UNCHANGED <<measuredDistanceCm, distanceMutex, commandMutex, setupVars,
                 decisionVars, sensorVars, rlen, rcmd, rlog, histVars>>
  /\ UNCHANGED otherBoards

\* Variant: a byte outside the enumeration is not stored.
RecvWriteValidated ==
  /\ rpc = "write"
  /\ remoteCommand' = IF IsCarCommand(rcmd) THEN rcmd ELSE remoteCommand
  /\ rpc' = "give"
  /\ UNCHANGED <<measuredDistanceCm, distanceMutex, commandMutex, setupVars,
                 decisionVars, sensorVars, rlen, rcmd, rlog, histVars>>
  /\ UNCHANGED <<overwriteVars, otherBoards>>

\* Variant: a command received again toggles the stored one back to STOP.
RecvWriteToggle ==
  /\ rpc = "write"
  /\ remoteCommand' = IF remoteCommand = rcmd THEN CMD_STOP ELSE rcmd
  /\ rpc' = "give"
  /\ UNCHANGED <<measuredDistanceCm, distanceMutex, commandMutex, setupVars,
                 decisionVars, sensorVars, rlen, rcmd, rlog, histVars>>
  /\ UNCHANGED <<overwriteVars, otherBoards>>

RecvWrite == RecvStore /\ UNCHANGED overwriteVars

\* Variant: the debug switch prints to SerialMega instead of Serial.
RecvGiveToMega ==
  /\ rpc = "give"
  /\ commandMutex' = "free"
  /\ rlog' = RecvLogLine(rcmd)
  /\ emitted' = Append(emitted, RecvLogLine(rcmd))
  /\ rcmd' = CMD_STOP
  /\ rpc' = "idle"
  /\ UNCHANGED <<remoteCommand, measuredDistanceCm, distanceMutex, setupVars,
                 dpc, currentDist, cmd, dlog, startCritical, distTook,
                 cmdTook, pubAtRead, sensorVars, rlen, histVars>>
  /\ UNCHANGED <<overwriteVars, otherBoards>>

\* xSemaphoreGive, then the debug switch prints and the callback returns.
RecvGive ==
  /\ rpc = "give"
  /\ commandMutex' = "free"
  /\ rlog' = RecvLogLine(rcmd)
  /\ rcmd' = CMD_STOP
  /\ rpc' = "idle"
  /\ UNCHANGED <<remoteCommand, measuredDistanceCm, distanceMutex, setupVars,
                 decisionVars, sensorVars, rlen, histVars>>
  /\ UNCHANGED <<overwriteVars, otherBoards>>

ReceiveCommand ==
  \/ RecvCall
  \/ RecvTake
  \/ RecvTakeTimeout
  \/ RecvWrite
  \/ RecvGive

\* -------------------------------------------------------------- decisionTask
DecisionTakeDist ==
  /\ dpc = "takeDist"
  /\ distanceMutex = "free"
  /\ distanceMutex' = "decision"
  /\ distTook' = TRUE
  /\ dpc' = "readDist"
  /\ UNCHANGED <<remoteCommand, measuredDistanceCm, commandMutex, setupVars,
                 currentDist, cmd, emitted, dlog, startCritical, cmdTook, pubAtRead,
                 sensorVars, recvVars, histVars>>
  /\ UNCHANGED <<overwriteVars, otherBoards>>

\* Variant: the take is retried until it succeeds (no timeout).
DecisionTakeDistRetry ==
  /\ dpc = "takeDist"
  /\ Held(distanceMutex)
  /\ UNCHANGED vars

\* else branch of the take: currentDist = MAX_DISTANCE; then cmd = CMD_STOP.
DecisionTakeDistTimeout ==
  /\ dpc = "takeDist"
  /\ Held(distanceMutex)
  /\ currentDist' = MAX_DISTANCE
  /\ cmd' = CMD_STOP
  /\ dpc' = "takeCmd"
  /\ UNCHANGED <<shared, setupVars, emitted, dlog, startCritical, distTook, cmdTook,
                 pubAtRead, sensorVars, recvVars, histVars>>
  /\ UNCHANGED <<overwriteVars, otherBoards>>

DecisionReadDist ==
  /\ dpc = "readDist"
  /\ currentDist' = measuredDistanceCm
  /\ dpc' = "giveDist"
  /\ UNCHANGED <<shared, setupVars, cmd, emitted, dlog, startCritical, distTook,
                 cmdTook, pubAtRead, sensorVars, recvVars, histVars>>
  /\ UNCHANGED <<overwriteVars, otherBoards>>

\* Variant: cmd's initialiser is CMD_FORWARD.
DecisionGiveDistInitForward ==
  /\ dpc = "giveDist"
  /\ distanceMutex' = "free"
  /\ cmd' = CMD_FORWARD
  /\ dpc' = "takeCmd"
  /\ UNCHANGED <<remoteCommand, measuredDistanceCm, commandMutex, setupVars,
                 currentDist, emitted, dlog, startCritical, distTook, cmdTook,
                 pubAtRead, sensorVars, recvVars, histVars>>
  /\ UNCHANGED <<overwriteVars, otherBoards>>

\* Variant: the give of distanceMutex is missing.
DecisionGiveDistMissing ==
  /\ dpc = "giveDist"
  /\ cmd' = CMD_STOP
  /\ dpc' = "takeCmd"
  /\ UNCHANGED <<shared, setupVars, currentDist, emitted, dlog, startCritical,
                 distTook, cmdTook, pubAtRead, sensorVars, recvVars, histVars>>
  /\ UNCHANGED <<overwriteVars, otherBoards>>

\* xSemaphoreGive(distanceMutex); then CarCommand cmd = CMD_STOP.
DecisionGiveDist ==
  /\ dpc = "giveDist"
  /\ distanceMutex' = "free"
  /\ cmd' = CMD_STOP
  /\ dpc' = "takeCmd"
  /\ UNCHANGED <<remoteCommand, measuredDistanceCm, commandMutex, setupVars,
                 currentDist, emitted, dlog, startCritical, distTook, cmdTook,
                 pubAtRead, sensorVars, recvVars, histVars>>
  /\ UNCHANGED <<overwriteVars, otherBoards>>

DecisionTakeCmd ==
  /\ dpc = "takeCmd"
  /\ commandMutex = "free"
  /\ commandMutex' = "decision"
  /\ cmdTook' = TRUE
  /\ dpc' = "readCmd"
  /\ UNCHANGED <<remoteCommand, measuredDistanceCm, distanceMutex, setupVars,
                 currentDist, cmd, emitted, dlog, startCritical, distTook, pubAtRead,
                 sensorVars, recvVars, histVars>>
  /\ UNCHANGED <<overwriteVars, otherBoards>>

\* Variant: the decision compares the stored distance, not the local copy.
DecideOnStored ==
  /\ emitted' = DecideTokens(measuredDistanceCm, cmd)
  /\ dlog' = DecideLog(measuredDistanceCm)
  /\ dpc' = "delay"

\* The decision (if / else if / else) with its SerialMega.println calls, up
\* to the vTaskDelay that ends the cycle.
Decide ==
  /\ emitted' = DecideTokens(currentDist, cmd)
  /\ dlog' = DecideLog(currentDist)
  /\ dpc' = "delay"

\* Variant: on a timeout the command is read without the mutex.
DecisionTakeCmdTimeoutUnlocked ==
  /\ dpc = "takeCmd"
  /\ Held(commandMutex)
  /\ pubAtRead' = remoteCommand
  /\ cmd' = remoteCommand
  /\ emitted' = DecideTokens(currentDist, remoteCommand)
  /\ dlog' = DecideLog(currentDist)
  /\ dpc' = "delay"
  /\ UNCHANGED <<shared, setupVars, currentDist, startCritical,
                 distTook, cmdTook, sensorVars, recvVars, histVars>>
  /\ UNCHANGED <<overwriteVars, otherBoards>>

\* The take returns pdFALSE: cmd keeps its initialiser CMD_STOP; the decision
\* follows.
DecisionTakeCmdTimeout ==
  /\ dpc = "takeCmd"
  /\ Held(commandMutex)
  /\ pubAtRead' = remoteCommand
  /\ Decide
  /\ UNCHANGED <<shared, setupVars, currentDist, cmd, startCritical,
                 distTook, cmdTook, sensorVars, recvVars, histVars>>
  /\ UNCHANGED <<overwriteVars, otherBoards>>

\* cmd = remoteCommand, under commandMutex.
DecisionLoadCmd ==
  /\ dpc = "readCmd"
  /\ cmd' = remoteCommand
  /\ pubAtRead' = lastTakenCmd
  /\ dpc' = "giveCmd"
  /\ UNCHANGED <<shared, setupVars, currentDist, emitted, dlog, startCritical,
                 distTook, cmdTook, sensorVars, recvVars, histVars>>
  /\ UNCHANGED otherBoards

DecisionReadCmd == DecisionLoadCmd /\ UNCHANGED overwriteVars

\* xSemaphoreGive(commandMutex); the decision follows.
DecisionGiveCmd ==
  /\ dpc = "giveCmd"
  /\ commandMutex' = "free"
  /\ Decide
  /\ UNCHANGED <<remoteCommand, measuredDistanceCm, distanceMutex, setupVars,
                 currentDist, cmd, startCritical, distTook, cmdTook,
                 pubAtRead, sensorVars, recvVars, histVars>>
  /\ UNCHANGED <<overwriteVars, otherBoards>>

\* vTaskDelay returns and the while (1) body starts again: the locals of the
\* body go out of scope.
DecisionDelay ==
  /\ dpc = "delay"
  /\ dpc' = "takeDist"
  /\ currentDist' = 0
  /\ cmd' = CMD_STOP
  /\ emitted' = <<>>
  /\ dlog' = "none"
  /\ startCritical' = (measuredDistanceCm <= CRITICAL_THRESHOLD)
  /\ distTook' = FALSE
  /\ cmdTook' = FALSE
  /\ pubAtRead' = CMD_STOP
  /\ UNCHANGED <<shared, setupVars, sensorVars, recvVars, histVars>>
  /\ UNCHANGED <<overwriteVars, otherBoards>>

DecisionTask ==
  \/ DecisionTakeDist
  \/ DecisionTakeDistTimeout
  \/ DecisionReadDist
  \/ DecisionGiveDist
  \/ DecisionTakeCmd
  \/ DecisionTakeCmdTimeout
  \/ DecisionReadCmd
  \/ DecisionGiveCmd
  \/ DecisionDelay

\* ---------------------------------------------------------------- sensorTask
SensorPingFrom(pings) ==
  /\ spc = "ping"
  /\ \E raw \in pings : d' = ReadUltrasonicCM(raw)
  /\ spc' = "takeDist"
  /\ UNCHANGED <<shared, setupVars, decisionVars, alarm, recvVars, histVars>>
  /\ UNCHANGED <<overwriteVars, otherBoards>>

SensorPing == SensorPingFrom(RawPings)

SensorTake ==
  /\ spc = "takeDist"
  /\ distanceMutex = "free"
  /\ distanceMutex' = "sensor"
  /\ lastTakenDist' = d
  /\ spc' = "write"
  /\ UNCHANGED <<remoteCommand, measuredDistanceCm, commandMutex, setupVars,
                 decisionVars, d, alarm, recvVars, lastTakenCmd>>
  /\ UNCHANGED <<overwriteVars, otherBoards>>

\* if (d < CRITICAL_THRESHOLD) { digitalWrite(ALARM_PIN, HIGH);
\* vTaskDelay(200) ... } else straight to vTaskDelay(100).
SoundAlarm ==
  IF AlarmCondition(d)
    THEN /\ alarm' = "HIGH"
         /\ spc' = "alarmOn"
    ELSE /\ spc' = "delay"
         /\ UNCHANGED alarm

\* The take returns pdFALSE: the sample is not stored; the alarm check
\* follows.
SensorTakeTimeout ==
  /\ spc = "takeDist"
  /\ Held(distanceMutex)
  /\ SoundAlarm
  /\ UNCHANGED <<shared, setupVars, decisionVars, d, recvVars, histVars>>
  /\ UNCHANGED <<overwriteVars, otherBoards>>

SensorWrite ==
  /\ spc = "write"
  /\ measuredDistanceCm' = d
  /\ spc' = "give"
  /\ UNCHANGED <<remoteCommand, distanceMutex, commandMutex, setupVars,
                 decisionVars, d, alarm, recvVars, histVars>>
  /\ UNCHANGED <<overwriteVars, otherBoards>>

\* xSemaphoreGive(distanceMutex); the alarm check follows.
SensorGive ==
  /\ spc = "give"
  /\ distanceMutex' = "free"
  /\ SoundAlarm
  /\ UNCHANGED <<remoteCommand, measuredDistanceCm, commandMutex, setupVars,
                 decisionVars, d, recvVars, histVars>>
  /\ UNCHANGED <<overwriteVars, otherBoards>>

\* Variant: the digitalWrite(ALARM_PIN, LOW) is missing.
SensorAlarmStaysHigh ==
  /\ spc = "alarmOn"
  /\ spc' = "alarmOff"
  /\ UNCHANGED <<shared, setupVars, decisionVars, d, alarm, recvVars, histVars>>
  /\ UNCHANGED <<overwriteVars, otherBoards>>

\* ... digitalWrite(ALARM_PIN, LOW); vTaskDelay(200) }
SensorAlarmLow ==
  /\ spc = "alarmOn"
  /\ alarm' = "LOW"
  /\ spc' = "alarmOff"
  /\ UNCHANGED <<shared, setupVars, decisionVars, d, recvVars, histVars>>
  /\ UNCHANGED <<overwriteVars, otherBoards>>

SensorAlarmDone ==
  /\ spc = "alarmOff"
  /\ spc' = "delay"
  /\ UNCHANGED <<shared, setupVars, decisionVars, d, alarm, recvVars, histVars>>
  /\ UNCHANGED <<overwriteVars, otherBoards>>

\* vTaskDelay(100) returns and the while (1) body starts again.
SensorDelay ==
  /\ spc = "delay"
  /\ spc' = "ping"
  /\ d' = 0
  /\ UNCHANGED <<shared, setupVars, decisionVars, alarm, recvVars, histVars>>
  /\ UNCHANGED <<overwriteVars, otherBoards>>

SensorTask ==
  \/ SensorPing
  \/ SensorTake
  \/ SensorTakeTimeout
  \/ SensorWrite
  \/ SensorGive
  \/ SensorAlarmLow
  \/ SensorAlarmDone
  \/ SensorDelay

\* ------------------------------------------------------------- specification
Next ==
  \/ Setup
  \/ ReceiveCommand
  \/ DecisionTask
  \/ SensorTask

Spec == Init /\ [][Next]_vars

\* The same program with fewer input values (what a context waits for and
\* how long does not depend on the values carried), under fair scheduling:
\* setup runs to its end, each task runs on its own core, and a started
\* callback runs to its return.  The arrival of a packet (the call from
\* "idle") is up to the environment and is not forced.
LivePings == {0, CRITICAL_THRESHOLD - 1}
LiveBytes == {CMD_FORWARD}
LiveLens == {PacketSize, PacketSize + 1}

LiveRecvCall == RecvCallFrom(LiveLens, LiveBytes)

LiveSensorPing == SensorPingFrom(LivePings)

RecvRun ==
  \/ RecvTake
  \/ RecvTakeTimeout
  \/ RecvWrite
  \/ RecvGive

SensorRun ==
  \/ SensorTake
  \/ SensorTakeTimeout
  \/ SensorWrite
  \/ SensorGive
  \/ SensorAlarmLow
  \/ SensorAlarmDone
  \/ SensorDelay

LiveNext ==
  \/ Setup
  \/ LiveRecvCall
  \/ RecvRun
  \/ DecisionTask
  \/ LiveSensorPing
  \/ SensorRun

FairSpec ==
  /\ Init
  /\ [][LiveNext]_vars
  /\ WF_vars(Setup)
  /\ WF_vars(DecisionTask)
  /\ WF_vars(LiveSensorPing \/ SensorRun)
  /\ WF_vars(RecvRun)

\* ------------------------------------------------------ overwritten commands
\* The ESP32 master with packets that carry enumerators and the history of
\* its stores: stored is set by the first store; unread is set by a store
\* and cleared by a read; lost holds the commands that were replaced while
\* unread and have not been stored again since.
OverwriteBytes == {CMD_STOP, CMD_FORWARD, CMD_LEFT}

OverwriteRecvCall == RecvCallFrom(LiveLens, OverwriteBytes)

RecvWriteTracked ==
  /\ RecvStore
  /\ unread' = TRUE
  /\ stored' = TRUE
  /\ lost' = (IF unread THEN lost \cup {remoteCommand} ELSE lost) \ {rcmd}

DecisionReadCmdTracked ==
  /\ DecisionLoadCmd
  /\ unread' = FALSE
  /\ UNCHANGED <<lost, stored>>

OverwriteNext ==
  \/ Setup
  \/ OverwriteRecvCall
  \/ RecvTake
  \/ RecvTakeTimeout
  \/ RecvWriteTracked
  \/ RecvGive
  \/ DecisionTakeDist
  \/ DecisionTakeDistTimeout
  \/ DecisionReadDist
  \/ DecisionGiveDist
  \/ DecisionTakeCmd
  \/ DecisionTakeCmdTimeout
  \/ DecisionReadCmdTracked
  \/ DecisionGiveCmd
  \/ DecisionDelay
  \/ LiveSensorPing
  \/ SensorRun

OverwriteSpec == Init /\ [][OverwriteNext]_vars

\* ------------------------------------------------- Arduino Mega motor driver
\* Everything the ESP32 master's steps read or write.
masterVars ==
  <<shared, setupVars, decisionVars, sensorVars, recvVars, histVars,
    overwriteVars>>

DefaultSpeed == 100

\* Lines that fit in Serial1's receive buffer in the model.
MaxPending == 2

\* A line is the sequence of its pieces, each a word or one whitespace
\* character; the '\n' that ends it is consumed by readStringUntil.
Whitespace == {" ", "\t", "\r"}

MegaWords == {"FORWARD", "BACKWARD", "LEFT", "RIGHT", "STOP", "forward", "GO"}

\* What println sends (word, CR), and lines with other spacing or no word.
MegaLines ==
  {<<w, "\r">> : w \in MegaWords}
    \cup {<<"\r">>, <<"LEFT">>, <<" ", "STOP", " ", "\r">>, <<"GO", " ", "LEFT", "\r">>}

RECURSIVE TrimLeft(_)
TrimLeft(line) ==
  IF line # <<>> /\ Head(line) \in Whitespace
    THEN TrimLeft(Tail(line))
    ELSE line

RECURSIVE TrimRight(_)
TrimRight(line) ==
  IF line # <<>> /\ line[Len(line)] \in Whitespace
    THEN TrimRight(SubSeq(line, 1, Len(line) - 1))
    ELSE line

\* String::trim(): leading and trailing whitespace removed.
Trim(line) == TrimRight(TrimLeft(line))

\* setSpeed(speed) on both motors, then run(l) and run(r).
Drive(l, r, speed) ==
  [leftRun |-> l, rightRun |-> r, leftSpeed |-> speed, rightSpeed |-> speed]

DriveForward(speed) == Drive("FORWARD", "FORWARD", speed)
DriveBackward(speed) == Drive("BACKWARD", "BACKWARD", speed)
TurnLeft(speed) == Drive("BACKWARD", "FORWARD", speed)
TurnRight(speed) == Drive("FORWARD", "BACKWARD", speed)

\* stopMotors: run(RELEASE) on both motors; no setSpeed.
StopMotors ==
  [leftRun |-> "RELEASE", rightRun |-> "RELEASE", leftSpeed |-> leftSpeed,
   rightSpeed |-> rightSpeed]

KeepMotors ==
  [leftRun |-> leftRun, rightRun |-> rightRun, leftSpeed |-> leftSpeed,
   rightSpeed |-> rightSpeed]

\* Variant: the final else of loop() stops the motors.
DispatchUnknownStops(c) ==
  CASE c = <<"FORWARD">> -> DriveForward(DefaultSpeed)
    [] c = <<"BACKWARD">> -> DriveBackward(DefaultSpeed)
    [] c = <<"LEFT">> -> TurnLeft(DefaultSpeed)
    [] c = <<"RIGHT">> -> TurnRight(DefaultSpeed)
    [] OTHER -> StopMotors

\* loop()'s if / else if chain on the trimmed line; the final else only
\* prints.
Dispatch(c) ==
  CASE c = <<"FORWARD">> -> DriveForward(DefaultSpeed)
    [] c = <<"BACKWARD">> -> DriveBackward(DefaultSpeed)
    [] c = <<"LEFT">> -> TurnLeft(DefaultSpeed)
    [] c = <<"RIGHT">> -> TurnRight(DefaultSpeed)
    [] c = <<"STOP">> -> StopMotors
    [] OTHER -> KeepMotors

KnownTokens == {<<t>> : t \in {"FORWARD", "BACKWARD", "LEFT", "RIGHT", "STOP"}}

SetMotors(m) ==
  /\ leftRun' = m.leftRun
  /\ rightRun' = m.rightRun
  /\ leftSpeed' = m.leftSpeed
  /\ rightSpeed' = m.rightSpeed

\* setup(): stopMotors() and on to loop(); on one side of the file's merge
\* conflict a failed AFMS.begin() spins in while (true) instead.
MegaSetup ==
  /\ mpc = "setup"
  /\ \E began \in BOOLEAN :
       IF began
         THEN mpc' = "loop" /\ SetMotors(StopMotors)
         ELSE mpc' = "halted" /\ SetMotors(KeepMotors)
  /\ UNCHANGED <<serial1, mcmd, megaLog, masterVars, remoteVars>>

\* A line written by the ESP32 arrives in Serial1's buffer.
MegaArrive ==
  /\ Len(serial1) < MaxPending
  /\ \E line \in MegaLines : serial1' = Append(serial1, line)
  /\ UNCHANGED <<mpc, mcmd, leftRun, rightRun, leftSpeed, rightSpeed, megaLog,
                 masterVars, remoteVars>>

\* One pass of loop() with Serial1.available(): read a line, trim, dispatch.
MegaLoop ==
  /\ mpc = "loop"
  /\ serial1 # <<>>
  /\ mcmd' = Trim(Head(serial1))
  /\ serial1' = Tail(serial1)
  /\ SetMotors(Dispatch(mcmd'))
  /\ megaLog' = IF mcmd' \in KnownTokens THEN "none" ELSE "Unknown command."
  /\ UNCHANGED <<mpc, masterVars, remoteVars>>

MegaNext ==
  \/ MegaSetup
  \/ MegaArrive
  \/ MegaLoop

MegaSpec == Init /\ [][MegaNext]_vars

\* --------------------------------------------------------- remote controller
Levels == {"LOW", "HIGH"}

\* The buttons are wired active-low (INPUT_PULLUP).
IsButtonPressed(level) == level = "LOW"

\* Variant: left alone is tested before left and right together.
ComputeCommandLeftFirst(l, r, b) ==
  IF b THEN CMD_BACKWARD
  ELSE IF l THEN CMD_LEFT
  ELSE IF l /\ r THEN CMD_FORWARD
  ELSE IF r THEN CMD_RIGHT
  ELSE CMD_STOP

\* computeCommandFromButtons' if / else if chain on its three locals.
ComputeCommandFromButtons(l, r, b) ==
  IF b THEN CMD_BACKWARD
  ELSE IF l /\ r THEN CMD_FORWARD
  ELSE IF l THEN CMD_LEFT
  ELSE IF r THEN CMD_RIGHT
  ELSE CMD_STOP

\* static_cast<uint8_t>.
ToUint8(v) == v % 256

\* The operator presses or releases buttons.
RemoteButtons ==
  /\ \E l, r, b \in Levels :
       /\ <<l, r, b>> # <<pinLeft, pinRight, pinBack>>
       /\ pinLeft' = l
       /\ pinRight' = r
       /\ pinBack' = b
  /\ UNCHANGED <<leftPressed, rightPressed, backPressed, currentCmd, sentPkt,
                 masterVars, megaVars>>

\* One pass of loop(): currentCmd = computeCommandFromButtons(), and, when
\* the send period has elapsed on the hardware timer, sendCurrentCommand().
RemoteLoop ==
  /\ leftPressed' = IsButtonPressed(pinLeft)
  /\ rightPressed' = IsButtonPressed(pinRight)
  /\ backPressed' = IsButtonPressed(pinBack)
  /\ currentCmd' = ComputeCommandFromButtons(leftPressed', rightPressed',
                                             backPressed')
  /\ \E due \in BOOLEAN :
       sentPkt' = IF due THEN <<ToUint8(currentCmd')>> ELSE sentPkt
  /\ UNCHANGED <<pinLeft, pinRight, pinBack, masterVars, megaVars>>

RemoteNext ==
  \/ RemoteButtons
  \/ RemoteLoop

RemoteSpec == Init /\ [][RemoteNext]_vars

\* ==================================================================== claims
\* A decisionTask cycle that has made its decision and written its tokens
\* (it is in the vTaskDelay that ends the cycle; its locals are still live).
CycleDecided == dpc = "delay"

\* C1: in every decisionTask cycle whose distance value currentDist is
\* <= CRITICAL_THRESHOLD, the only token the cycle writes to the motor link is
\* BACKWARD, whatever remoteCommand holds or comes to hold during the cycle.
CriticalEmitsBackward ==
  (CycleDecided /\ currentDist <= CRITICAL_THRESHOLD) => emitted = <<"BACKWARD">>

\* The cycle read FORWARD, receiveCommand stored LEFT after the read, and the
\* cycle emitted BACKWARD at the critical distance.
CriticalWitness ==
  /\ CycleDecided
  /\ currentDist = CRITICAL_THRESHOLD
  /\ cmd = CMD_FORWARD
  /\ remoteCommand = CMD_LEFT
  /\ emitted = <<"BACKWARD">>

\* C2 as stated: decisionTask never emits FORWARD in a cycle that starts while
\* measuredDistanceCm <= CRITICAL_THRESHOLD, timeouts of the take included.
NoForwardWhenStartCritical ==
  (CycleDecided /\ startCritical) => emitted # <<"FORWARD">>

\* C2 as amended: decisionTask never emits FORWARD in a cycle that takes
\* distanceMutex and reads measuredDistanceCm <= CRITICAL_THRESHOLD; a cycle
\* whose take of distanceMutex times out decides on MAX_DISTANCE and writes
\* the token of the command it read, FORWARD included.
NoForwardWhenReadCritical ==
  /\ (CycleDecided /\ distTook /\ currentDist <= CRITICAL_THRESHOLD)
       => emitted # <<"FORWARD">>
  /\ (CycleDecided /\ ~distTook) => emitted = SwitchTokens(cmd)

\* The cycle started with a critical stored distance, read it under the
\* mutex, read FORWARD, and did not emit FORWARD.
ReadCriticalWitness ==
  /\ CycleDecided
  /\ startCritical
  /\ distTook
  /\ currentDist < CRITICAL_THRESHOLD
  /\ cmdTook
  /\ cmd = CMD_FORWARD

\* C3 as stated: in every cycle whose distance value is > OBSTACLE_THRESHOLD
\* the token written is the name of the command most recently published by
\* receiveCommand when the cycle reads (or fails to read) the command.
ClearEmitsPublished ==
  (CycleDecided /\ currentDist > OBSTACLE_THRESHOLD /\ IsCarCommand(pubAtRead))
    => emitted = <<NameOf(pubAtRead)>>

\* C3 as amended: in every cycle whose distance value is > OBSTACLE_THRESHOLD
\* and which takes commandMutex, the token written is the name of the command
\* most recently stored by receiveCommand (CMD_STOP if none) at the read, when
\* that is one of the five CarCommand values; a cycle whose take of
\* commandMutex times out writes STOP instead.
ClearEmitsPublishedWhenRead ==
  /\ (CycleDecided /\ currentDist > OBSTACLE_THRESHOLD /\ cmdTook
        /\ IsCarCommand(pubAtRead))
       => emitted = <<NameOf(pubAtRead)>>
  /\ (CycleDecided /\ currentDist > OBSTACLE_THRESHOLD /\ ~cmdTook)
       => emitted = <<"STOP">>

\* Distance just above the obstacle threshold, LEFT published and read, LEFT
\* emitted, while a later call has already stored another command.
ClearWitness ==
  /\ CycleDecided
  /\ currentDist = OBSTACLE_THRESHOLD + 1
  /\ distTook
  /\ cmdTook
  /\ pubAtRead = CMD_LEFT
  /\ emitted = <<"LEFT">>
  /\ remoteCommand = CMD_FORWARD

\* C4: in every cycle whose distance value d has CRITICAL_THRESHOLD < d <=
\* OBSTACLE_THRESHOLD the cycle emits BACKWARD and nothing else: the operator's
\* command is not forwarded.
ObstacleEmitsBackward ==
  (CycleDecided /\ CRITICAL_THRESHOLD < currentDist
     /\ currentDist <= OBSTACLE_THRESHOLD) => emitted = <<"BACKWARD">>

\* A cycle in the obstacle zone that read FORWARD and emitted BACKWARD.
ObstacleWitness ==
  /\ CycleDecided
  /\ currentDist = OBSTACLE_THRESHOLD
  /\ cmdTook
  /\ cmd = CMD_FORWARD
  /\ emitted = <<"BACKWARD">>

\* C5: a receiveCommand call with len # sizeof(ControlPacket) returns at once
\* (it never gets to take commandMutex), leaves remoteCommand,
\* measuredDistanceCm and both mutexes as they were, and prints the error.
BadLengthChangesNothing ==
  [][(rpc = "idle" /\ recvVars' # recvVars /\ rlen' # PacketSize)
       => /\ rpc' = "idle"
          /\ rlog' = "Error: Invalid packet size"
          /\ UNCHANGED shared]_vars

\* A call of length 2 has returned with the error printed; the command
\* published before it is still stored.
BadLengthWitness ==
  /\ rpc = "idle"
  /\ rlen = PacketSize + 1
  /\ rlog = "Error: Invalid packet size"
  /\ remoteCommand = CMD_LEFT
  /\ commandMutex = "free"

\* C6: decisionTask writes exactly one motion token to the motor link in
\* every cycle, for every value remoteCommand can hold.
OneTokenPerCycle == CycleDecided => Len(emitted) = 1

\* C7: measuredDistanceCm is in 1..MAX_DISTANCE in every reachable state, and
\* so is every distance decisionTask reads: a ping of 0 is published as
\* MAX_DISTANCE.
DistanceInRange ==
  /\ measuredDistanceCm \in 1..MAX_DISTANCE
  /\ (dpc \in {"giveDist", "takeCmd", "readCmd", "giveCmd", "delay"})
       => currentDist \in 1..MAX_DISTANCE
  /\ (spc \notin {"off", "ping"}) => d \in 1..MAX_DISTANCE

\* A ping without echo was published and read: MAX_DISTANCE is no value of
\* RawPings, so d = MAX_DISTANCE comes from a raw 0 only.
NoEchoWitness ==
  /\ MAX_DISTANCE \notin RawPings
  /\ spc = "delay"
  /\ d = MAX_DISTANCE
  /\ measuredDistanceCm = MAX_DISTANCE
  /\ distTook
  /\ currentDist = MAX_DISTANCE
  /\ CycleDecided

\* Outside a locked section that has taken its mutex and not yet run its
\* store, each shared variable holds the value of the last context that took
\* the mutex (the initial value if none did).
LastTakenStored ==
  /\ rpc # "write" => remoteCommand = lastTakenCmd
  /\ spc # "write" => measuredDistanceCm = lastTakenDist

\* A step that changes a shared variable is the store of the context that
\* holds the variable's mutex.
OnlyLockedStores ==
  /\ remoteCommand' # remoteCommand
       => (rpc = "write" /\ commandMutex = "recv" /\ remoteCommand' = rcmd)
  /\ measuredDistanceCm' # measuredDistanceCm
       => (spc = "write" /\ distanceMutex = "sensor" /\ measuredDistanceCm' = d)

\* C8: remoteCommand is the command of the last receiveCommand call that took
\* commandMutex (CMD_STOP if none) and measuredDistanceCm the sample of the
\* last sensorTask cycle that took distanceMutex (50 if none), the store of a
\* locked section in progress excepted; only those stores change either
\* variable, so a write whose take times out changes nothing.
StoredIsLastTaken == []LastTakenStored /\ [][OnlyLockedStores]_vars

\* The last call carried FORWARD and has returned, yet LEFT is stored: its
\* take timed out and its write was dropped.  The same for a critical sample
\* of sensorTask that was not stored.
DroppedWriteWitness ==
  /\ rpc = "idle"
  /\ rlog = "Command: FORWARD"
  /\ remoteCommand = CMD_LEFT
  /\ spc = "alarmOn"
  /\ measuredDistanceCm = MAX_DISTANCE

\* The step of decisionTask that leaves a take without holding the mutex (the
\* take timed out) sets the fallback value and goes on.
TimeoutFallback ==
  /\ (dpc = "takeDist" /\ dpc' # "takeDist" /\ distanceMutex' # "decision")
       => /\ currentDist' = MAX_DISTANCE
          /\ dpc' = "takeCmd"
          /\ UNCHANGED shared
  /\ (dpc = "takeCmd" /\ dpc' # "takeCmd" /\ commandMutex' # "decision")
       => /\ cmd' = CMD_STOP
          /\ dpc' = "delay"
          /\ UNCHANGED shared

\* A decided cycle decided on the fallback value of each take that timed out.
FallbackUsed ==
  /\ (CycleDecided /\ ~distTook) => currentDist = MAX_DISTANCE
  /\ (CycleDecided /\ ~cmdTook) => cmd = CMD_STOP

\* C9: a decisionTask cycle whose take of distanceMutex times out uses
\* MAX_DISTANCE as its distance and goes on to the command; one whose take of
\* commandMutex times out uses CMD_STOP and goes on to the decision; neither
\* step changes the stored variables or the mutexes.
TimeoutsFallBack == []FallbackUsed /\ [][TimeoutFallback]_vars

\* Both takes of one cycle timed out while a critical distance and FORWARD
\* were stored; the cycle decided on MAX_DISTANCE and CMD_STOP.
FallbackWitness ==
  /\ CycleDecided
  /\ ~distTook
  /\ ~cmdTook
  /\ measuredDistanceCm < CRITICAL_THRESHOLD
  /\ remoteCommand = CMD_FORWARD
  /\ emitted = <<"STOP">>

\* Each loop comes to its final delay and to its loop top again and again; a
\* running callback returns.
DecisionProgress == []<>(dpc = "delay") /\ []<>(dpc = "takeDist")
SensorProgress == []<>(spc = "delay") /\ []<>(spc = "ping")
RecvReturns == (rpc # "idle") ~> (rpc = "idle")

\* C10: under fair scheduling decisionTask and sensorTask each complete
\* infinitely many cycles and every receiveCommand call returns, whichever
\* takes time out.
NoContextBlocksForever == DecisionProgress /\ SensorProgress /\ RecvReturns

\* Both takes of a decisionTask cycle timed out, and the cycle, the
\* sensorTask cycle and the receiveCommand call beside it all ended.
AllTimedOutWitness ==
  /\ CycleDecided
  /\ ~distTook
  /\ ~cmdTook
  /\ spc = "delay"
  /\ rpc = "idle"
  /\ rlog = "Command: FORWARD"

\* The five motion tokens of the motor link.
MotorTokens == {"FORWARD", "BACKWARD", "LEFT", "RIGHT", "STOP"}

\* Every token on the motor link is one of the five motion tokens.
LinkTokensValid == \A i \in 1..Len(emitted) : emitted[i] \in MotorTokens

\* A step that changes what is on the motor link is a step of decisionTask
\* (its decision, or the restart of its loop body) and of no other context.
LinkWrittenByDecision ==
  emitted' # emitted =>
    /\ dpc \in {"takeCmd", "giveCmd", "delay"}
    /\ dpc' # dpc
    /\ UNCHANGED <<sensorVars, recvVars>>

\* C11: only decisionTask writes to the motor link (no step of sensorTask or
\* of receiveCommand does), and every token it writes is FORWARD, BACKWARD,
\* LEFT, RIGHT or STOP.
OnlyDecisionWritesLink == []LinkTokensValid /\ [][LinkWrittenByDecision]_vars

\* decisionTask has written RIGHT while sensorTask is inside its alarm and
\* receiveCommand is inside its critical section.
LinkWitness ==
  /\ CycleDecided
  /\ emitted = <<"RIGHT">>
  /\ spc = "alarmOn"
  /\ rpc = "give"

\* The step of a sensing cycle that ends at the alarm check: the give after
\* the store, or the take that timed out.
AlarmChecked == spc \in {"takeDist", "give"} /\ spc' \in {"alarmOn", "delay"}

\* C12: a sensing cycle raises the alarm if and only if its sample d is in
\* the condition that makes decisionTask take its Critical branch
\* (d <= CRITICAL_THRESHOLD, d = CRITICAL_THRESHOLD included).
AlarmIffCritical ==
  [][AlarmChecked =>
       ((spc' = "alarmOn" /\ alarm' = "HIGH") <=> DecideBranch(d) = "Critical")]_vars

\* The store of a call that carries the command already stored (the second
\* of two consecutive successful calls with the same command) leaves
\* remoteCommand as the first call left it.
SameCommandStoreKeeps ==
  (rpc = "write" /\ rpc' = "give" /\ remoteCommand = rcmd)
    => remoteCommand' = remoteCommand

\* A command read under commandMutex is the stored one.
ReadSeesStored == dpc = "giveCmd" => cmd = remoteCommand

\* C13: publishing is idempotent: a second successful receiveCommand call
\* with the same command leaves remoteCommand, and so the next command read
\* of decisionTask, as a single call leaves them.
PublishIdempotent == []ReadSeesStored /\ [][SameCommandStoreKeeps]_vars

\* A call has stored LEFT again: decisionTask read LEFT from an earlier call
\* before this call took commandMutex.
RepublishWitness ==
  /\ rpc = "give"
  /\ rcmd = CMD_LEFT
  /\ remoteCommand = CMD_LEFT
  /\ CycleDecided
  /\ cmdTook
  /\ cmd = CMD_LEFT

\* C14: a packet of correct length is not rejected whatever its command
\* byte: once receiveCommand has taken commandMutex and stored, remoteCommand
\* is that byte unchanged, also when the byte is outside 0..4.
AnyByteStored ==
  rpc = "give" =>
    /\ rlen = PacketSize
    /\ rcmd \in CmdBytes
    /\ remoteCommand = rcmd

\* A call with the largest byte (outside the enumeration) has stored it,
\* printed "Command: UNKNOWN" and returned.
OutOfRangeWitness ==
  /\ rpc = "idle"
  /\ rlen = PacketSize
  /\ rlog = "Command: UNKNOWN"
  /\ ~IsCarCommand(remoteCommand)
  /\ remoteCommand = MaxCmdByte
  /\ lastTakenCmd = remoteCommand

\* The motors are as the last token read set them.
TokenAction ==
  /\ mcmd = <<"FORWARD">> => leftRun = "FORWARD" /\ rightRun = "FORWARD"
  /\ mcmd = <<"BACKWARD">> => leftRun = "BACKWARD" /\ rightRun = "BACKWARD"
  /\ mcmd = <<"LEFT">> => leftRun = "BACKWARD" /\ rightRun = "FORWARD"
  /\ mcmd = <<"RIGHT">> => leftRun = "FORWARD" /\ rightRun = "BACKWARD"
  /\ mcmd = <<"STOP">> => leftRun = "RELEASE" /\ rightRun = "RELEASE"

\* A pass of loop() that read any other line leaves run state and speed.
UnknownKeeps ==
  (Len(serial1') < Len(serial1) /\ mcmd' \notin KnownTokens)
    => UNCHANGED <<leftRun, rightRun, leftSpeed, rightSpeed>>

\* C15: the motor driver's loop maps FORWARD to both motors forward,
\* BACKWARD to both backward, LEFT to left backward and right forward, RIGHT
\* to left forward and right backward, STOP to both released, and any other
\* token leaves the motors' run state and speed unchanged.
MegaMapsTokens == []TokenAction /\ [][UnknownKeeps]_vars

\* After LEFT the driver read the line "forward": the motors still turn
\* left at the default speed.
UnknownTokenWitness ==
  /\ mcmd = <<"forward">>
  /\ megaLog = "Unknown command."
  /\ leftRun = "BACKWARD"
  /\ rightRun = "FORWARD"
  /\ leftSpeed = DefaultSpeed
  /\ rightSpeed = DefaultSpeed

\* C16: computeCommandFromButtons follows the documented priority for all 8
\* button combinations (back: BACKWARD whatever the others; else left and
\* right: FORWARD; else left: LEFT; else right: RIGHT; else STOP), so every
\* packet sendCurrentCommand sends carries one byte in 0..4.
ButtonPriority ==
  /\ backPressed => currentCmd = CMD_BACKWARD
  /\ (~backPressed /\ leftPressed /\ rightPressed) => currentCmd = CMD_FORWARD
  /\ (~backPressed /\ leftPressed /\ ~rightPressed) => currentCmd = CMD_LEFT
  /\ (~backPressed /\ ~leftPressed /\ rightPressed) => currentCmd = CMD_RIGHT
  /\ (~backPressed /\ ~leftPressed /\ ~rightPressed) => currentCmd = CMD_STOP
  /\ sentPkt # <<>> =>
       /\ Len(sentPkt) = PacketSize
       /\ sentPkt[1] \in CMD_STOP..CMD_RIGHT

\* All three buttons were pressed at the read and BACKWARD was sent.
AllPressedWitness ==
  /\ backPressed
  /\ leftPressed
  /\ rightPressed
  /\ currentCmd = CMD_BACKWARD
  /\ sentPkt = <<CMD_BACKWARD>>

\* A context is between its take and its give of a mutex exactly when it is
\* the holder, so two contexts are never inside the same mutex.
MutexOwner ==
  /\ distanceMutex \in {"NULL", "free", "decision", "sensor"}
  /\ commandMutex \in {"NULL", "free", "decision", "recv"}
  /\ distanceMutex = "decision" <=> dpc \in {"readDist", "giveDist"}
  /\ distanceMutex = "sensor" <=> spc \in {"write", "give"}
  /\ commandMutex = "decision" <=> dpc \in {"readCmd", "giveCmd"}
  /\ commandMutex = "recv" <=> rpc \in {"write", "give"}

\* No context holds both mutexes.
NeverBoth == ~(distanceMutex = "decision" /\ commandMutex = "decision")

\* A context that delays, drives the alarm, has written its tokens or has
\* returned holds no mutex.
ReleasedWhenBlocking ==
  /\ (dpc = "delay" \/ emitted # <<>>)
       => "decision" \notin {distanceMutex, commandMutex}
  /\ spc \in {"alarmOn", "alarmOff", "delay"} => distanceMutex # "sensor"
  /\ rpc = "idle" => commandMutex # "recv"

\* Every started context can take a step.
NoContextStuck ==
  /\ dpc # "off" => ENABLED DecisionTask
  /\ spc # "off" => ENABLED SensorTask
  /\ rpc # "idle" => ENABLED RecvRun

\* C17: each mutex is held by at most one context at a time, no context
\* holds distanceMutex and commandMutex together, every successful take is
\* followed by a give before the context delays, writes to the motor link,
\* drives the alarm or returns, and no deadlock state is reachable.
MutexDiscipline ==
  /\ MutexOwner
  /\ NeverBoth
  /\ ReleasedWhenBlocking
  /\ NoContextStuck

\* Both mutexes are held, by sensorTask and by receiveCommand, and
\* decisionTask has timed out on both and is in its delay.
ContentionWitness ==
  /\ distanceMutex = "sensor"
  /\ commandMutex = "recv"
  /\ CycleDecided
  /\ ~distTook
  /\ ~cmdTook

\* The emission of a cycle that read a clear distance while the stored
\* distance has meanwhile become critical.
StaleEmission ==
  /\ dpc = "giveCmd"
  /\ dpc' = "delay"
  /\ distTook
  /\ currentDist > OBSTACLE_THRESHOLD
  /\ measuredDistanceCm <= CRITICAL_THRESHOLD

\* C18: the two fields are not read atomically: a cycle whose distance read
\* was clear emits the operator's command (FORWARD included) although
\* sensorTask has since stored a distance <= CRITICAL_THRESHOLD; that cycle
\* writes no BACKWARD override, which is left to a later cycle.
StaleReadEmitsCommand ==
  [][(StaleEmission /\ IsCarCommand(cmd))
       => /\ emitted' = <<NameOf(cmd)>>
          /\ dlog' = "none"
          /\ measuredDistanceCm' <= CRITICAL_THRESHOLD]_vars

\* The cycle read 21 cm and then FORWARD; sensorTask has stored 7 cm in
\* between and sounds its alarm; the cycle is about to give commandMutex
\* and emit.
StaleReadWitness ==
  /\ dpc = "giveCmd"
  /\ distTook
  /\ currentDist = OBSTACLE_THRESHOLD + 1
  /\ cmd = CMD_FORWARD
  /\ measuredDistanceCm = CRITICAL_THRESHOLD - 1
  /\ spc = "alarmOn"

\* C19: decisionTask's comparisons are inclusive: a distance equal to
\* CRITICAL_THRESHOLD takes the Critical branch (not the Obstacle branch), a
\* distance equal to OBSTACLE_THRESHOLD takes the Obstacle branch (the
\* operator command is not forwarded), and OBSTACLE_THRESHOLD + 1 is the
\* smallest distance at which the operator command is forwarded.
InclusiveThresholds ==
  CycleDecided =>
    /\ currentDist = CRITICAL_THRESHOLD =>
         /\ dlog = "Proximity Alert! Backtracking..."
         /\ emitted = <<"BACKWARD">>
    /\ currentDist = OBSTACLE_THRESHOLD =>
         /\ dlog = "Obstacle Alert! Backtracking..."
         /\ emitted = <<"BACKWARD">>
    /\ currentDist = OBSTACLE_THRESHOLD + 1 =>
         /\ dlog = "none"
         /\ emitted = SwitchTokens(cmd)
    /\ currentDist < OBSTACLE_THRESHOLD + 1 =>
         /\ dlog # "none"
         /\ emitted = <<"BACKWARD">>

\* A cycle that read exactly CRITICAL_THRESHOLD and the command FORWARD
\* printed the proximity alert and wrote BACKWARD.
AtCriticalWitness ==
  /\ CycleDecided
  /\ distTook
  /\ cmdTook
  /\ currentDist = CRITICAL_THRESHOLD
  /\ cmd = CMD_FORWARD
  /\ dlog = "Proximity Alert! Backtracking..."
  /\ emitted = <<"BACKWARD">>

\* The command a cycle has read under commandMutex is the one stored, which
\* is the command of the last call that stored, and is none of the lost
\* ones.
ReadsLatestOnly ==
  dpc = "giveCmd" =>
    /\ cmd = remoteCommand
    /\ cmd = lastTakenCmd
    /\ cmd \notin lost

\* A cycle that read the command and forwards it writes no lost command.
EmitsNoLost ==
  (dpc = "giveCmd" /\ dpc' = "delay" /\ currentDist > OBSTACLE_THRESHOLD)
    => \A c \in lost : emitted' # <<NameOf(c)>>

\* C20: commands are overwritten, never queued: a command that was replaced
\* by a later valid packet before decisionTask read it is not read and not
\* emitted by any later cycle; every command read under the lock is the
\* single value stored at that moment.
NeverQueued == []ReadsLatestOnly /\ [][EmitsNoLost]_vars

\* FORWARD was stored and replaced by LEFT with no read in between; the
\* cycle that read afterwards has emitted LEFT.
OverwrittenWitness ==
  /\ lost = {CMD_FORWARD}
  /\ ~unread
  /\ CycleDecided
  /\ cmdTook
  /\ cmd = CMD_LEFT
  /\ emitted = <<"LEFT">>

\* ALARM_PIN is HIGH exactly during the on-phase.
AlarmOnlyInOnPhase == alarm = "HIGH" <=> spc = "alarmOn"

\* The alarm is raised only by the alarm check that follows the publish
\* attempt; the on-phase is followed by the off-phase and the cycle's final
\* delay; a measurement starts and ends with the alarm LOW.
OneAlarmCyclePerSample ==
  /\ (alarm = "LOW" /\ alarm' = "HIGH")
       => (spc \in {"takeDist", "give"} /\ spc' = "alarmOn")
  /\ (spc = "alarmOn" /\ spc' # spc) => (spc' = "alarmOff" /\ alarm' = "LOW")
  /\ (spc = "alarmOff" /\ spc' # spc) => (spc' = "delay" /\ alarm' = "LOW")
  /\ (spc = "ping" /\ spc' # spc) => (alarm = "LOW" /\ alarm' = "LOW")

\* C21: the alarm output is HIGH only during the on-phase of sensorTask's
\* alarm cycle: each time it is set HIGH it is set LOW again before the next
\* measurement, so it is LOW at every measurement and at most one on/off
\* cycle occurs per sensing cycle.
AlarmPhases == []AlarmOnlyInOnPhase /\ [][OneAlarmCyclePerSample]_vars

\* A sensing cycle with a 7 cm sample has raised the alarm and lowered it
\* again, and is in its off-phase.
AlarmLoweredWitness ==
  /\ spc = "alarmOff"
  /\ alarm = "LOW"
  /\ d = CRITICAL_THRESHOLD - 1
  /\ measuredDistanceCm = d

\* C22: until the first receiveCommand call with a valid length has stored
\* its command, remoteCommand is CMD_STOP and every token decisionTask emits
\* is STOP or BACKWARD.
StopUntilFirstCommand ==
  ~stored =>
    /\ remoteCommand = CMD_STOP
    /\ cmd = CMD_STOP
    /\ \A i \in 1..Len(emitted) : emitted[i] \in {"STOP", "BACKWARD"}

\* Nothing is stored yet: a call carrying FORWARD has taken commandMutex,
\* and the cycle whose take timed out at a clear distance has emitted STOP.
BeforeFirstCommandWitness ==
  /\ ~stored
  /\ rpc = "write"
  /\ rcmd = CMD_FORWARD
  /\ CycleDecided
  /\ distTook
  /\ ~cmdTook
  /\ currentDist > OBSTACLE_THRESHOLD
  /\ emitted = <<"STOP">>

BothMutexesExist == distanceMutex # "NULL" /\ commandMutex # "NULL"

\* Whoever can take or give a mutex (the registered callback, a created
\* task) finds both mutexes created.
MutexesExistForUsers ==
  (recvRegistered \/ dpc # "off" \/ spc # "off") => BothMutexesExist

\* The callback is registered and each task is created in a state where both
\* mutexes exist; a take or give (a change of a mutex outside setup) acts on
\* a created mutex, and a created mutex is never deleted.
CreatedFirst ==
  /\ ((~recvRegistered /\ recvRegistered')
        \/ (dpc = "off" /\ dpc' # "off")
        \/ (spc = "off" /\ spc' # "off")) => BothMutexesExist
  /\ (distanceMutex' # distanceMutex /\ setupPc' = setupPc)
       => distanceMutex # "NULL"
  /\ (commandMutex' # commandMutex /\ setupPc' = setupPc)
       => commandMutex # "NULL"
  /\ BothMutexesExist => BothMutexesExist'

\* C23: setup creates both mutexes before it registers the receive callback
\* and before it creates either task, so receiveCommand, decisionTask and
\* sensorTask never take or give a mutex that does not exist yet.
MutexesBeforeUse == []MutexesExistForUsers /\ [][CreatedFirst]_vars

\* After setup all three contexts work on the mutexes: decisionTask holds
\* distanceMutex, receiveCommand holds commandMutex, sensorTask is at its
\* take.
AllUseMutexesWitness ==
  /\ setupPc = "done"
  /\ recvRegistered
  /\ distanceMutex = "decision"
  /\ commandMutex = "recv"
  /\ spc = "takeDist"

\* setup has passed esp_now_init() and it failed.
InitFailed ==
  /\ setupPc \in {"createDecision", "createSensor", "done"}
  /\ ~recvRegistered

\* After a failed initialisation receiveCommand never runs, remoteCommand
\* is CMD_STOP, both tasks exist once setup is done, the two alert arms
\* still write BACKWARD, and no other token than STOP is written.
FailedInitSafe ==
  InitFailed =>
    /\ rpc = "idle"
    /\ remoteCommand = CMD_STOP
    /\ setupPc = "done" => (dpc # "off" /\ spc # "off")
    /\ \A i \in 1..Len(emitted) : emitted[i] \in {"STOP", "BACKWARD"}
    /\ (CycleDecided /\ currentDist <= OBSTACLE_THRESHOLD)
         => emitted = <<"BACKWARD">>
    /\ (CycleDecided /\ currentDist > OBSTACLE_THRESHOLD)
         => emitted = <<"STOP">>

\* The callback is not registered later.
StaysFailed == InitFailed => InitFailed'

\* C24: if ESP-NOW initialisation fails in setup, the receive callback is
\* never registered but both tasks are still created: remoteCommand stays
\* CMD_STOP, sensing and the obstacle override keep running, decisionTask
\* emits only STOP or BACKWARD, and the rover is not halted.
FailedInitDegrades ==
  /\ []FailedInitSafe
  /\ [][StaysFailed]_vars
  /\ InitFailed ~> (setupPc = "done")
  /\ InitFailed ~> CycleDecided
  /\ InitFailed ~> (spc = "delay")

\* Without the callback: sensorTask stored 7 cm and sounds the alarm, and
\* the decisionTask cycle that read it has written BACKWARD.
FailedInitWitness ==
  /\ setupPc = "done"
  /\ ~recvRegistered
  /\ CycleDecided
  /\ distTook
  /\ currentDist = CRITICAL_THRESHOLD - 1
  /\ emitted = <<"BACKWARD">>
  /\ spc = "alarmOn"

====
